---- MODULE Spec2Model ----
(***************************************************************************)
(* Model of the gdl90 crate: the binary frame decoder (lib.rs), the        *)
(* message dispatch (datalink.rs), the field codecs of the Report and of   *)
(* the vertical metrics (types/report.rs,                                  *)
(* types/ownship_geometric_altitude.rs) and the Control Panel encoder      *)
(* (control.rs).  Bytes are integers 0..255, byte strings are sequences,   *)
(* and a reader (std::io::Cursor) is a stream with a 0-based position.     *)
(***************************************************************************)
EXTENDS Integers, Sequences, FiniteSets, TLC

VARIABLES
    stream,    \* the bytes held by the Cursor handed to Gdl90Message::read
    pos,       \* the Cursor's position (0-based offset of the next byte)
    result,    \* outcome of the last Gdl90Message::read on the Cursor
    calls,     \* number of Gdl90Message::read calls made on the Cursor
    inp,       \* how the sender produced the stream (body framed, leading bytes)
    build,     \* build profile: "debug" (overflow checks) or "release"
    cin,       \* input bytes of the field codec under test
    cout       \* value returned by the field codec under test

vars == <<stream, pos, result, calls, inp, build, cin, cout>>

----------------------------------------------------------------------------
(* Bounds of the model *)

MaxRawLen == 4

MaxSpanLen == 5

MaxDataLen == 5

MaxReads == 2

----------------------------------------------------------------------------
(* Bit arithmetic on naturals *)

RECURSIVE Xor(_, _)
Xor(a, b) ==
    IF a = 0 THEN b
    ELSE IF b = 0 THEN a
    ELSE (((a % 2) + (b % 2)) % 2) + 2 * Xor(a \div 2, b \div 2)

Byte == 0 .. 255

\* u16 from two bytes, least significant first (binrw `little`)
U16LE(b0, b1) == b0 + 256 * b1

\* i16 two's-complement reading of a u16
AsI16(u) == IF u >= 32768 THEN u - 65536 ELSE u

\* u16 two's-complement bit pattern of any integer (wrapping cast)
WrapU16(x) == ((x % 65536) + 65536) % 65536

Take(s, n) == SubSeq(s, 1, n)

----------------------------------------------------------------------------
(* lib.rs constants *)

GDL90_ESCAPEBYTE == 125

GDL90_MAGIC == 126

----------------------------------------------------------------------------
(* crc.rs: the GDL90 table-driven CRC-16 (polynomial 0x1021, zero initial  *)
(* register, one table look-up per byte, most significant byte first)      *)

CRC16_TABLE ==
<<
    0, 4129, 8258, 12387, 16516, 20645, 24774, 28903,
    33032, 37161, 41290, 45419, 49548, 53677, 57806, 61935,
    4657, 528, 12915, 8786, 21173, 17044, 29431, 25302,
    37689, 33560, 45947, 41818, 54205, 50076, 62463, 58334,
    9314, 13379, 1056, 5121, 25830, 29895, 17572, 21637,
    42346, 46411, 34088, 38153, 58862, 62927, 50604, 54669,
    13907, 9842, 5649, 1584, 30423, 26358, 22165, 18100,
    46939, 42874, 38681, 34616, 63455, 59390, 55197, 51132,
    18628, 22757, 26758, 30887, 2112, 6241, 10242, 14371,
    51660, 55789, 59790, 63919, 35144, 39273, 43274, 47403,
    23285, 19156, 31415, 27286, 6769, 2640, 14899, 10770,
    56317, 52188, 64447, 60318, 39801, 35672, 47931, 43802,
    27814, 31879, 19684, 23749, 11298, 15363, 3168, 7233,
    60846, 64911, 52716, 56781, 44330, 48395, 36200, 40265,
    32407, 28342, 24277, 20212, 15891, 11826, 7761, 3696,
    65439, 61374, 57309, 53244, 48923, 44858, 40793, 36728,
    37256, 33193, 45514, 41451, 53516, 49453, 61774, 57711,
    4224, 161, 12482, 8419, 20484, 16421, 28742, 24679,
    33721, 37784, 41979, 46042, 49981, 54044, 58239, 62302,
    689, 4752, 8947, 13010, 16949, 21012, 25207, 29270,
    46570, 42443, 38312, 34185, 62830, 58703, 54572, 50445,
    13538, 9411, 5280, 1153, 29798, 25671, 21540, 17413,
    42971, 47098, 34713, 38840, 59231, 63358, 50973, 55100,
    9939, 14066, 1681, 5808, 26199, 30326, 17941, 22068,
    55628, 51565, 63758, 59695, 39368, 35305, 47498, 43435,
    22596, 18533, 30726, 26663, 6336, 2273, 14466, 10403,
    52093, 56156, 60223, 64286, 35833, 39896, 43963, 48026,
    19061, 23124, 27191, 31254, 2801, 6864, 10931, 14994,
    64814, 60687, 56684, 52557, 48554, 44427, 40424, 36297,
    31782, 27655, 23652, 19525, 15522, 11395, 7392, 3265,
    61215, 65342, 53085, 57212, 44955, 49082, 36825, 40952,
    28183, 32310, 20053, 24180, 11923, 16050, 3793, 7920
>>

\* one step: crc = table[crc >> 8] ^ (crc << 8) ^ byte, on 16 bits
CrcStep(crc, byte) ==
    Xor(Xor(CRC16_TABLE[(crc \div 256) + 1], (crc * 256) % 65536), byte)

\* the loop over data[lo .. hi] started with register crc; the range is
\* split in halves so that long bodies do not nest deeply, and the register
\* after the first half is bound (c) so that it is computed once
RECURSIVE CrcRange(_, _, _, _)
CrcRange(data, lo, hi, crc) ==
    IF lo > hi THEN crc
    ELSE IF lo = hi THEN CrcStep(crc, data[lo])
    ELSE LET mid == (lo + hi) \div 2
         IN CHOOSE r \in { CrcRange(data, mid + 1, hi, c) :
                             c \in { CrcRange(data, lo, mid, crc) } } : TRUE

gdl90_crc(data) == CrcRange(data, 1, Len(data), 0)

----------------------------------------------------------------------------
(* lib.rs: remove_escapes.  The loop state is the 1-based index i of the   *)
(* next byte to look at and the result built so far.                       *)

\* one iteration of the while loop at index st.i
RemoveEscapesStep(data, st) ==
    IF data[st.i] = GDL90_ESCAPEBYTE
    THEN IF st.i + 1 <= Len(data)
         THEN [i |-> st.i + 2, result |-> Append(st.result, Xor(data[st.i + 1], 32))]
         ELSE [i |-> st.i + 1, result |-> st.result]
    ELSE [i |-> st.i + 1, result |-> Append(st.result, data[st.i])]

\* the iterations whose index lies in lo .. hi; an index the loop jumps over
\* (the byte after an escape) runs no iteration
RECURSIVE RemoveEscapesRange(_, _, _, _)
RemoveEscapesRange(data, lo, hi, st) ==
    IF lo > hi THEN st
    ELSE IF lo = hi
         THEN IF st.i = lo THEN RemoveEscapesStep(data, st) ELSE st
    ELSE LET mid == (lo + hi) \div 2
         IN CHOOSE r \in { RemoveEscapesRange(data, mid + 1, hi, t) :
                             t \in { RemoveEscapesRange(data, lo, mid, st) } } : TRUE

\* an unescaping that drops the escape bytes and leaves the rest as it is
remove_escapes_no_xor(data) == SelectSeq(data, LAMBDA b : b # GDL90_ESCAPEBYTE)

remove_escapes(data) ==
    RemoveEscapesRange(data, 1, Len(data), [i |-> 1, result |-> << >>]).result

----------------------------------------------------------------------------
(* datalink.rs: Gdl90DatalinkMessage.  binrw tries the variants in source   *)
(* order; a variant parses when its magic byte matches and its fields can   *)
(* be read; a variant that fails rewinds and the next one is tried.  The    *)
(* last variant, Unknown, has no magic and no fields and always parses.     *)

GDL90_GEO_ALTITUDE_FACTOR == 5

\* types/uplink_data.rs: UplinkPayload = uat_specific_header: u8 + payload: [u8; 424]
UplinkPayloadLen == 1 + 424

\* types/report.rs: Report is a 216-bit bitfield, read as [u8; 27]
ReportLen == 27

\* the variants with a magic, in source order: name, magic, bytes of fields
DatalinkVariants ==
    << [name |-> "Heartbeat",                 magic |-> 0,  need |-> 6],
       [name |-> "Initialization",            magic |-> 2,  need |-> 2],
       [name |-> "UplinkData",                magic |-> 7,  need |-> 3 + UplinkPayloadLen],
       [name |-> "HeightAboveTerrain",        magic |-> 9,  need |-> 2],
       [name |-> "OwnshipReport",             magic |-> 10, need |-> ReportLen],
       [name |-> "TrafficReport",             magic |-> 20, need |-> ReportLen],
       [name |-> "OwnshipGeoometricAltitude", magic |-> 11, need |-> 4],
       [name |-> "BasicReport",               magic |-> 30, need |-> 0],
       [name |-> "LongReport",                magic |-> 31, need |-> 0] >>

\* the map |x: i16| x * GDL90_GEO_ALTITUDE_FACTOR on the little-endian i16
GeoAltitudeProduct(d) == AsI16(U16LE(d[1], d[2])) * GDL90_GEO_ALTITUDE_FACTOR

GeoAltitudeOverflows(d) ==
    GeoAltitudeProduct(d) < -32768 \/ GeoAltitudeProduct(d) > 32767

\* the decoded fields of a variant, d being the bytes after the magic
DatalinkFields(name, d) ==
    CASE name = "Heartbeat" ->
            << d[1], d[2], U16LE(d[3], d[4]), U16LE(d[5], d[6]) >>
      [] name = "Initialization" -> << d[1], d[2] >>
      [] name = "UplinkData" ->
            << d[1] + 256 * d[2] + 65536 * d[3] >> \o SubSeq(d, 4, 3 + UplinkPayloadLen)
      [] name = "HeightAboveTerrain" -> << U16LE(d[1], d[2]) >>
      [] name = "OwnshipReport" -> Take(d, ReportLen)
      [] name = "TrafficReport" -> Take(d, ReportLen)
      [] name = "OwnshipGeoometricAltitude" ->
            << AsI16(WrapU16(GeoAltitudeProduct(d))), d[3], d[4] >>
      [] OTHER -> << >>

\* the multiplication aborts the thread when overflow checks are compiled in
\* and the i16 was read (two bytes after the magic), whatever follows it
GeoAltitudePanics(v, data, checks) ==
    /\ v.name = "OwnshipGeoometricAltitude"
    /\ Len(data) >= 3
    /\ checks
    /\ GeoAltitudeOverflows(Tail(data))

RECURSIVE DatalinkTryFrom(_, _, _)
DatalinkTryFrom(k, data, checks) ==
    IF k > Len(DatalinkVariants)
    THEN [kind |-> "ok", variant |-> "Unknown", fields |-> << >>]
    ELSE LET v == DatalinkVariants[k] IN
         IF Len(data) >= 1 /\ data[1] = v.magic
         THEN IF GeoAltitudePanics(v, data, checks)
              THEN [kind |-> "panic", variant |-> "none", fields |-> << >>]
              ELSE IF Len(data) - 1 >= v.need
                   THEN [kind |-> "ok", variant |-> v.name,
                         fields |-> DatalinkFields(v.name, Tail(data))]
                   ELSE DatalinkTryFrom(k + 1, data, checks)
         ELSE DatalinkTryFrom(k + 1, data, checks)

Gdl90DatalinkMessage_read(data, checks) == DatalinkTryFrom(1, data, checks)

----------------------------------------------------------------------------
(* lib.rs: parse_message_bytes and Gdl90Message::read on a Cursor holding s *)
(* at 0-based position p.                                                   *)

\* 0-based offset of the first GDL90_MAGIC among the offsets lo .. hi, or -1
RECURSIVE FindMagicIn(_, _, _)
FindMagicIn(s, lo, hi) ==
    IF lo > hi THEN -1
    ELSE IF lo = hi THEN (IF s[lo + 1] = GDL90_MAGIC THEN lo ELSE -1)
    ELSE LET mid  == (lo + hi) \div 2
             left == FindMagicIn(s, lo, mid)
         IN IF left >= 0 THEN left ELSE FindMagicIn(s, mid + 1, hi)

\* binrw::helpers::until_exclusive(|&b| b == GDL90_MAGIC): 0-based offset of the
\* first GDL90_MAGIC at or after offset q, or -1 when the stream ends first
FindMagic(s, q) == FindMagicIn(s, q, Len(s) - 1)

\* bytes.truncate(bytes.len().saturating_sub(2))
TruncateCheckSeq(bytes) ==
    Take(bytes, IF Len(bytes) >= 2 THEN Len(bytes) - 2 ELSE 0)

\* offset passed back by reader.seek(SeekFrom::Current(-3)) after the scan
\* stopped one past the closing flag at offset j
SeekBack(j) == (j + 1) - 3

\* the #[br(assert(frame_check_seq == gdl90_crc(&data)))] condition
CheckSeqAssert(frame_check_seq, data) == frame_check_seq = gdl90_crc(data)

Failure(why, p) ==
    [kind |-> "err", err |-> why, variant |-> "none", fields |-> << >>,
     frame_check_seq |-> -1, pos |-> p]

\* the fields of Gdl90Message, read once the magic at offset p has matched:
\* data (parse_message_bytes: scan to the next flag, drop the last two raw
\* bytes, seek back, unescape), message_data (parsed from data alone) and
\* frame_check_seq (a little-endian u16 read from the stream where the seek
\* left the Cursor, then asserted).  A failed read leaves the Cursor where
\* the read began (binrw restores the position on error); a successful one
\* leaves it after frame_check_seq.
Gdl90Message_fields(s, p, checks) ==
    LET j == FindMagic(s, p + 1) IN
    IF j < 0 THEN Failure("Io", p)
    ELSE IF SeekBack(j) < 0 THEN Failure("Io", p)
    ELSE LET bytes == SubSeq(s, p + 2, j)
             data  == remove_escapes(TruncateCheckSeq(bytes))
             msg   == Gdl90DatalinkMessage_read(data, checks)
             q     == SeekBack(j)
             fcs   == U16LE(s[q + 1], s[q + 2])
         IN IF msg.kind = "panic"
            THEN [kind |-> "panic", err |-> "overflow", variant |-> "none",
                  fields |-> << >>, frame_check_seq |-> -1, pos |-> q]
            ELSE IF ~ CheckSeqAssert(fcs, data)
            THEN Failure("AssertFail", p)
            ELSE [kind |-> "ok", err |-> "none", variant |-> msg.variant,
                  fields |-> msg.fields, frame_check_seq |-> fcs,
                  pos |-> q + 2]

\* a reader that scans forward to the first flag byte instead of requiring it
Gdl90Message_read_resync(s, p, checks) ==
    IF p >= Len(s) \/ FindMagic(s, p) < 0 THEN Failure("Io", p)
    ELSE Gdl90Message_fields(s, FindMagic(s, p), checks)

\* Gdl90Message::read: #[br(magic = b"\x7E")], then the fields
Gdl90Message_read(s, p, checks) ==
    IF p >= Len(s) THEN Failure("Io", p)
    ELSE IF s[p + 1] # GDL90_MAGIC THEN Failure("BadMagic", p)
    ELSE Gdl90Message_fields(s, p, checks)

----------------------------------------------------------------------------
(* types/report.rs: the altitude field of a Report.  The bitfield getter    *)
(* hands Altitude::from_bytes the 16 bits at bit offset 80 (bytes 10 and 11 *)
(* of the Report, least significant byte first).                            *)

GDL90_ALTITUDE_FACTOR == 25

GDL90_ALTITUDE_OFFSET == -1000

swap_bytes16(x) == (x % 256) * 256 + (x \div 256)

\* a decoder that forgets the byte swap
Altitude_from_bytes_noswap(input) ==
    LET swapped  == input \div 16
        factored == swapped * GDL90_ALTITUDE_FACTOR
        value    == factored + GDL90_ALTITUDE_OFFSET
    IN IF value = 4095
       THEN [kind |-> "InvalidOrUnknown", value |-> 0]
       ELSE [kind |-> "Valid", value |-> value]

Altitude_from_bytes(input) ==
    LET swapped  == swap_bytes16(input) \div 16
        factored == swapped * GDL90_ALTITUDE_FACTOR
        value    == factored + GDL90_ALTITUDE_OFFSET
    IN IF value = 4095
       THEN [kind |-> "InvalidOrUnknown", value |-> 0]
       ELSE [kind |-> "Valid", value |-> value]

\* Report::altitude() on the 27 bytes of a Report (1-based indices 11, 12)
Report_altitude(report) == Altitude_from_bytes(U16LE(report[11], report[12]))

----------------------------------------------------------------------------
(* The sender's side of the wire format (GDL90 ICD 2.2.1, quoted by lib.rs):*)
(* used only to build input streams.                                        *)

StuffByte(x) ==
    IF x = GDL90_MAGIC \/ x = GDL90_ESCAPEBYTE
    THEN << GDL90_ESCAPEBYTE, Xor(x, 32) >>
    ELSE << x >>

RECURSIVE StuffRange(_, _, _)
StuffRange(b, lo, hi) ==
    IF lo > hi THEN << >>
    ELSE IF lo = hi THEN StuffByte(b[lo])
    ELSE LET mid == (lo + hi) \div 2
         IN StuffRange(b, lo, mid) \o StuffRange(b, mid + 1, hi)

Stuff(b) == StuffRange(b, 1, Len(b))

CrcBytesLE(b) == << gdl90_crc(b) % 256, gdl90_crc(b) \div 256 >>

Frame(b) == << GDL90_MAGIC >> \o Stuff(b \o CrcBytesLE(b)) \o << GDL90_MAGIC >>

----------------------------------------------------------------------------
(* Inputs *)

RawAlphabet == {0, 65, 93, 125, 126}

\* arbitrary short streams, and arbitrary spans between two flag bytes
RawStreams ==
    UNION { [1 .. n -> RawAlphabet] : n \in 0 .. MaxRawLen }
    \cup UNION { { << GDL90_MAGIC >> \o span \o << GDL90_MAGIC >> :
                     span \in [1 .. n -> RawAlphabet \ {GDL90_MAGIC}] } :
                 n \in 0 .. MaxSpanLen }

KnownIds == { DatalinkVariants[k].magic : k \in 1 .. Len(DatalinkVariants) }

Ids == KnownIds \cup {65, 125, 126, 255}

DataBytes == {0, 1, 125, 126, 202}

FillBytes == {0, 32}

Leads == { << >>, << 65 >>, << 0, 125 >> }

NeedOf(id) ==
    LET k == CHOOSE k \in 1 .. Len(DatalinkVariants) : DatalinkVariants[k].magic = id
    IN DatalinkVariants[k].need

\* data of length n: first byte x, second byte y, every later byte f
Pattern(n, x, y, f) ==
    [i \in 1 .. n |-> IF i = 1 THEN x ELSE IF i = 2 THEN y ELSE f]

ShortData == { Pattern(n, x, y, f) : n \in 0 .. MaxDataLen, x \in DataBytes,
                                     y \in DataBytes, f \in FillBytes }

\* data one byte short of, exactly at, and one byte past what a schema needs
EdgeData(id) ==
    IF id \notin KnownIds THEN { }
    ELSE { Pattern(n, x, y, 0) :
             n \in { m \in {NeedOf(id) - 1, NeedOf(id), NeedOf(id) + 1} : m > MaxDataLen },
             x \in DataBytes,
             y \in IF NeedOf(id) > 100 THEN {0} ELSE DataBytes }

Bodies == { << id >> \o d : id \in Ids, d \in ShortData }
          \cup UNION { { << id >> \o d : d \in EdgeData(id) } : id \in Ids }

NoResult ==
    [kind |-> "none", err |-> "none", variant |-> "none", fields |-> << >>,
     frame_check_seq |-> -1, pos |-> 0]

NoCodec == [kind |-> "none", value |-> 0]

----------------------------------------------------------------------------
(* The frame decoder: a Cursor over a stream, read up to MaxReads times     *)

InitRaw ==
    /\ stream \in RawStreams
    /\ inp = [kind |-> "raw", body |-> << >>, lead |-> << >>]

InitFramed ==
    /\ \E b \in Bodies, g \in Leads :
          /\ stream = g \o Frame(b)
          /\ inp = [kind |-> "framed", body |-> b, lead |-> g]

Init ==
    /\ (InitRaw \/ InitFramed)
    /\ pos = 0
    /\ result = NoResult
    /\ calls = 0
    /\ build \in {"debug", "release"}
    /\ cin = << >>
    /\ cout = NoCodec

\* Gdl90Message::read(&mut cursor), also what read_raw does on a fresh Cursor
Read ==
    /\ calls < MaxReads
    /\ result.kind # "panic"
    /\ result' = Gdl90Message_read(stream, pos, build = "debug")
    /\ pos' = result'.pos
    /\ calls' = calls + 1
    /\ UNCHANGED <<stream, inp, build, cin, cout>>

Next == Read

Spec == Init /\ [][Next]_vars

----------------------------------------------------------------------------
(* The altitude codec on every 16-bit altitude/misc field                   *)

ReportWithAltitude(b10, b11) ==
    [i \in 1 .. ReportLen |-> IF i = 11 THEN b10 ELSE IF i = 12 THEN b11 ELSE 0]

InitAltitude ==
    /\ \E b10 \in Byte, b11 \in Byte : cin = ReportWithAltitude(b10, b11)
    /\ cout = NoCodec
    /\ stream = << >>
    /\ pos = 0
    /\ result = NoResult
    /\ calls = 0
    /\ inp = [kind |-> "codec", body |-> << >>, lead |-> << >>]
    /\ build = "release"

ReadAltitude ==
    /\ cout.kind = "none"
    /\ cout' = Report_altitude(cin)
    /\ UNCHANGED <<stream, pos, result, calls, inp, build, cin>>

NextAltitude == ReadAltitude

SpecAltitude == InitAltitude /\ [][NextAltitude]_vars

----------------------------------------------------------------------------
(* What the wire format says about a stream, for stating the properties     *)

\* one read was made on a fresh Cursor over a frame the sender built from
\* inp.body, with nothing in front of it
SentFrameRead == inp.kind = "framed" /\ inp.lead = << >> /\ calls = 1

SentId == inp.body[1]

SentData == Tail(inp.body)

\* the variant the message table gives for an ID
VariantOfId(id) ==
    IF id \in KnownIds
    THEN LET k == CHOOSE k \in 1 .. Len(DatalinkVariants) : DatalinkVariants[k].magic = id
         IN DatalinkVariants[k].name
    ELSE "Unknown"

\* the bytes between the leading flag and the next flag of the stream
FirstSpan == SubSeq(stream, 2, FindMagic(stream, 1))

FirstSpanExists ==
    Len(stream) >= 2 /\ stream[1] = GDL90_MAGIC /\ FindMagic(stream, 1) >= 1

\* the wire format's view of a span: all of it is unescaped, the last two
\* bytes are the frame-check sequence and the rest is the message body
WireFcs(span) ==
    LET u == remove_escapes(span) IN U16LE(u[Len(u) - 1], u[Len(u)])

WireBody(span) ==
    LET u == remove_escapes(span) IN Take(u, Len(u) - 2)

\* the unescaping loop arrives at the last byte of d and finds an escape
\* byte there, with nothing after it to un-escape
DanglingEscape(d) ==
    /\ Len(d) >= 1
    /\ d[Len(d)] = GDL90_ESCAPEBYTE
    /\ RemoveEscapesRange(d, 1, Len(d) - 1, [i |-> 1, result |-> << >>]).i = Len(d)

\* the 12 altitude bits of a Report on the wire: byte 10 is the high 8 bits,
\* the high nibble of byte 11 the low 4 bits
RawAltitude(report) == report[11] * 16 + (report[12] \div 16)

----------------------------------------------------------------------------
(* C1 *)

\* C1: a message is returned only if the transmitted frame-check sequence
\* (the last two bytes of the unescaped span) equals the CRC of the unescaped
\* message body (the rest of the span); a mismatch is always an error.
C1_CrcMismatchRejected ==
    (calls = 1 /\ result.kind = "ok") =>
        /\ FirstSpanExists
        /\ Len(remove_escapes(FirstSpan)) >= 2
        /\ WireFcs(FirstSpan) = gdl90_crc(WireBody(FirstSpan))

----------------------------------------------------------------------------
(* C2 *)

\* C2: the frame 7E ++ stuff(b ++ little-endian CRC(b)) ++ 7E decodes
\* successfully, to the message decoded from b and frame_check_seq = CRC(b),
\* for every body b, escaped body bytes and escaped CRC bytes included.
C2_StuffedRoundTrip ==
    SentFrameRead =>
        /\ result.kind = "ok"
        /\ result.frame_check_seq = gdl90_crc(inp.body)
        /\ result.variant = Gdl90DatalinkMessage_read(inp.body, FALSE).variant
        /\ result.fields = Gdl90DatalinkMessage_read(inp.body, FALSE).fields

----------------------------------------------------------------------------
(* C3 *)

\* C3 (as stated): bytes other than 7E in front of a well-formed frame are
\* skipped and the frame that follows is decoded; they never make the
\* decode fail.
C3_Resynchronises ==
    (inp.kind = "framed" /\ inp.lead # << >> /\ calls = 1) =>
        result.kind = "ok"

\* C3 (amended): when the byte at the reader's position is not 7E the read
\* skips nothing: it fails with a bad-magic error and returns no message.
C3_LeadingByteIsBadMagic ==
    (calls >= 1 /\ Len(stream) >= 1 /\ stream[1] # GDL90_MAGIC) =>
        /\ result.kind = "err"
        /\ result.err = "BadMagic"
        /\ result.variant = "none"

C3_Witness ==
    /\ inp.kind = "framed"
    /\ inp.lead = << 65 >>
    /\ inp.body = << 0, 0, 0, 0, 0, 0 >>
    /\ calls = 1
    /\ result.err = "BadMagic"

----------------------------------------------------------------------------
(* C4 *)

\* C4: an escape byte 7D with no following byte inside the span being
\* unescaped (the last byte before the two frame-check bytes, or the last
\* byte before the end flag) makes the decode fail; no message is returned.
C4_DanglingEscapeFails ==
    (/\ calls = 1
     /\ FirstSpanExists
     /\ \/ DanglingEscape(TruncateCheckSeq(FirstSpan))
        \/ DanglingEscape(FirstSpan))
    => result.kind = "err"

----------------------------------------------------------------------------
(* C5 *)

\* C5: a well-formed frame whose ID is none of 00, 02, 07, 09, 0A, 0B, 14,
\* 1E, 1F decodes successfully to Unknown, whatever data follows the ID.
C5_UnknownIdDecodes ==
    (SentFrameRead /\ SentId \notin {0, 2, 7, 9, 10, 11, 20, 30, 31}) =>
        /\ result.kind = "ok"
        /\ result.variant = "Unknown"

----------------------------------------------------------------------------
(* C6 *)

\* C6: a well-formed frame with a known ID and fewer data bytes than the
\* ID's schema needs fails to decode, even though its frame-check sequence
\* matches; it never yields Unknown or any other variant.
C6_ShortBodyFails ==
    (SentFrameRead /\ SentId \in KnownIds /\ Len(SentData) < NeedOf(SentId)) =>
        result.kind = "err"

----------------------------------------------------------------------------
(* C7 *)

\* C7: a well-formed frame with a known ID and more data bytes than the
\* schema needs decodes successfully to the variant of that ID, its fields
\* taken from the leading bytes; the trailing bytes are ignored.
C7_LongBodyDecodes ==
    (SentFrameRead /\ SentId \in KnownIds /\ Len(SentData) > NeedOf(SentId)) =>
        /\ result.kind = "ok"
        /\ result.variant = VariantOfId(SentId)
        /\ result.fields =
              DatalinkFields(VariantOfId(SentId), Take(SentData, NeedOf(SentId)))

----------------------------------------------------------------------------
(* C8 *)

\* C8: for a frame whose data is at least as long as the schema needs, the
\* decoded variant is the one the table gives for the ID byte (00 Heartbeat,
\* 02 Initialization, 07 UplinkData, 09 HeightAboveTerrain, 0A OwnshipReport,
\* 14 TrafficReport, 0B OwnshipGeometricAltitude, 1E BasicReport, 1F
\* LongReport), one variant per frame, and no other ID yields any of them.
C8_DispatchByIdAlone ==
    (SentFrameRead /\ (SentId \in KnownIds => Len(SentData) >= NeedOf(SentId))) =>
        /\ result.kind = "ok"
        /\ result.variant = VariantOfId(SentId)

----------------------------------------------------------------------------
(* C9 *)

\* C9: whenever the 12 altitude bits of a Report are FFF, the altitude
\* decodes to InvalidOrUnknown, whatever the low 4 bits of the field are.
C9_AltitudeSentinel ==
    (cout.kind # "none" /\ RawAltitude(cin) = 4095) =>
        cout.kind = "InvalidOrUnknown"

----------------------------------------------------------------------------
(* C10 *)

\* C10: for every altitude/misc field whose 12 altitude bits r are not the
\* sentinel FFF, the altitude decodes to Valid(25 * r - 1000) feet,
\* whatever the low 4 bits of the second byte are.
C10_AltitudeScaling ==
    (cout.kind # "none" /\ RawAltitude(cin) # 4095) =>
        cout = [kind |-> "Valid", value |-> 25 * RawAltitude(cin) - 1000]

\* wire bytes 08 C9 (low nibble 9 set) have been decoded to 2500 feet
C10_Witness ==
    /\ cin[11] = 8
    /\ cin[12] = 201
    /\ cout = [kind |-> "Valid", value |-> 2500]

----------------------------------------------------------------------------
(* types/report.rs: the velocity field of a Report.  The bitfield getter    *)
(* hands Velocity::from_bytes the 24 bits at bit offset 104 (bytes 13, 14   *)
(* and 15 of the Report, least significant byte first).                     *)

GDL90_HORZ_VELOCITY_FACTOR == 1

GDL90_VERT_VELOCITY_FACTOR == 64

\* u32::swap_bytes(input) >> 8
swap_bytes32_shr8(input) ==
    (input % 256) * 65536 + ((input \div 256) % 256) * 256
        + ((input \div 65536) % 256)

I16Overflows(x) == x < -32768 \/ x > 32767

\* VelocityType::Vertical of an i16 product; a product that leaves the i16
\* range has no value of its own (abort or wrapped value, by build)
VerticalOf(p) ==
    IF I16Overflows(p)
    THEN [kind |-> "Overflow", value |-> AsI16(WrapU16(p))]
    ELSE [kind |-> "Vertical", value |-> p]

Unavailable == [kind |-> "Unavailable", value |-> 0]

\* a decoder that leaves out the two's-complement conversion of the 12 bits
Velocity_from_bytes_unsigned(input0) ==
    LET input      == swap_bytes32_shr8(input0)
        combined_h == input \div 4096
        combined_v == input % 4096
    IN [h_vel |-> IF combined_h = 4095 THEN Unavailable
                  ELSE [kind |-> "Horizontal",
                        value |-> combined_h * GDL90_HORZ_VELOCITY_FACTOR],
        v_vel |-> IF combined_v = 2048 THEN Unavailable
                  ELSE IF (combined_v >= 511 /\ combined_v <= 2047)
                          \/ (combined_v >= 2049 /\ combined_v <= 3585)
                  THEN Unavailable
                  ELSE VerticalOf(combined_v * GDL90_VERT_VELOCITY_FACTOR)]

Velocity_from_bytes(input0) ==
    LET input      == swap_bytes32_shr8(input0)
        combined_h == (input \div 4096) % 4096
        combined_v == input % 4096
    IN [h_vel |-> IF combined_h = 4095 THEN Unavailable
                  ELSE [kind |-> "Horizontal",
                        value |-> combined_h * GDL90_HORZ_VELOCITY_FACTOR],
        v_vel |-> IF combined_v = 2048 THEN Unavailable
                  ELSE IF (combined_v >= 511 /\ combined_v <= 2047)
                          \/ (combined_v >= 2049 /\ combined_v <= 3585)
                  THEN Unavailable
                  ELSE IF combined_v > 2047
                  THEN VerticalOf((combined_v - 4096) * GDL90_VERT_VELOCITY_FACTOR)
                  ELSE VerticalOf(combined_v * GDL90_VERT_VELOCITY_FACTOR)]

\* a getter that takes the three bytes most significant byte first
Report_velocity_be(report) ==
    Velocity_from_bytes(report[14] * 65536 + report[15] * 256 + report[16])

\* Report::velocity() on the 27 bytes of a Report (1-based indices 14 .. 16)
Report_velocity(report) ==
    Velocity_from_bytes(report[14] + 256 * report[15] + 65536 * report[16])

----------------------------------------------------------------------------
(* The velocity codec: every value of the second and third wire byte (all   *)
(* 4096 vertical codes under every low horizontal nibble) and a few first   *)
(* bytes                                                                    *)

VelocityFirstBytes == {0, 7, 255}

ReportWithVelocity(b13, b14, b15) ==
    [i \in 1 .. ReportLen |->
        IF i = 14 THEN b13 ELSE IF i = 15 THEN b14 ELSE IF i = 16 THEN b15 ELSE 0]

InitVelocity ==
    /\ \E b13 \in VelocityFirstBytes, b14 \in Byte, b15 \in Byte :
          cin = ReportWithVelocity(b13, b14, b15)
    /\ cout = NoCodec
    /\ stream = << >>
    /\ pos = 0
    /\ result = NoResult
    /\ calls = 0
    /\ inp = [kind |-> "codec", body |-> << >>, lead |-> << >>]
    /\ build = "release"

ReadVelocity ==
    /\ cout.kind = "none"
    /\ cout' = [kind |-> "ok", value |-> Report_velocity(cin)]
    /\ UNCHANGED <<stream, pos, result, calls, inp, build, cin>>

NextVelocity == ReadVelocity

SpecVelocity == InitVelocity /\ [][NextVelocity]_vars

\* the velocity field on the wire: the first byte and the high nibble of the
\* second are the horizontal code, the rest the vertical code
WireHorizontal(report) == report[14] * 16 + (report[15] \div 16)

WireVertical(report) == (report[15] % 16) * 256 + report[16]

----------------------------------------------------------------------------
(* C11 *)

\* C11: with v the low 12 bits of the velocity field, the vertical velocity
\* is Unavailable for v = 800 and for v in 1FF..7FF or 801..E01,
\* Vertical(64 * v) for v in 000..1FE and Vertical(64 * (v - 4096)) for v in
\* E02..FFF; every Vertical value is a multiple of 64 in -32640 .. 32640, so
\* the 16-bit product never overflows.
C11_VerticalVelocity ==
    cout.kind # "none" =>
        LET v == WireVertical(cin)
            r == cout.value.v_vel
        IN /\ (v = 2048 \/ v \in 511 .. 2047 \/ v \in 2049 .. 3585)
                  => r = [kind |-> "Unavailable", value |-> 0]
           /\ v \in 0 .. 510 => r = [kind |-> "Vertical", value |-> 64 * v]
           /\ v \in 3586 .. 4095
                  => r = [kind |-> "Vertical", value |-> 64 * (v - 4096)]
           /\ r.kind \in {"Vertical", "Unavailable"}
           /\ r.kind = "Vertical"
                  => r.value % 64 = 0 /\ r.value >= -32640 /\ r.value <= 32640

\* wire bytes 07 BE 02 (v = E02, the most negative code) have been decoded
C11_Witness ==
    /\ cin[14] = 7 /\ cin[15] = 190 /\ cin[16] = 2
    /\ cout.kind = "ok"
    /\ cout.value.v_vel = [kind |-> "Vertical", value |-> -32640]

----------------------------------------------------------------------------
(* C12 *)

\* C12: with h the high 12 bits of the velocity field (first wire byte and
\* high nibble of the second), the horizontal velocity is Unavailable for
\* h = FFF and Horizontal(h) otherwise; the horizontal result depends on h
\* alone and the vertical result on the low 12 bits alone.
C12_HorizontalVelocity ==
    cout.kind # "none" =>
        LET h == WireHorizontal(cin)
        IN /\ h = 4095 => cout.value.h_vel = [kind |-> "Unavailable", value |-> 0]
           /\ h # 4095 => cout.value.h_vel = [kind |-> "Horizontal", value |-> h]
           /\ cout.value.h_vel =
                 Velocity_from_bytes(cin[14] + 256 * ((cin[15] \div 16) * 16)).h_vel
           /\ cout.value.v_vel =
                 Velocity_from_bytes(256 * (cin[15] % 16) + 65536 * cin[16]).v_vel

\* wire bytes FF F8 00 (h = FFF, v = 800) have been decoded
C12_Witness ==
    /\ cin[14] = 255 /\ cin[15] = 248 /\ cin[16] = 0
    /\ cout.kind = "ok"
    /\ cout.value.h_vel.kind = "Unavailable"
    /\ cout.value.v_vel.kind = "Unavailable"

----------------------------------------------------------------------------
(* types/report.rs: the coordinate fields of a Report.  Cord::from_bytes    *)
(* returns an f32; the model holds it as the integer number of 2^-23        *)
(* degrees, which is exact for every f32 the decoder can produce.           *)

RECURSIVE BitLen(_)
BitLen(n) == IF n = 0 THEN 0 ELSE 1 + BitLen(n \div 2)

RECURSIVE Pow2(_)
Pow2(k) == IF k = 0 THEN 1 ELSE 2 * Pow2(k - 1)

\* f32 keeps 24 significant bits and rounds to nearest, ties to even
F32RoundNat(n) ==
    IF BitLen(n) <= 24 THEN n
    ELSE LET q   == Pow2(BitLen(n) - 24)
             lo  == n \div q
             rem == n % q
         IN IF 2 * rem > q \/ (2 * rem = q /\ lo % 2 = 1)
            THEN (lo + 1) * q
            ELSE lo * q

F32Round(x) == IF x < 0 THEN 0 - F32RoundNat(0 - x) ELSE F32RoundNat(x)

\* (value as f32) * (180.0 / (1 << 23) as f32), in units of 2^-23 degree:
\* both factors are exact f32 values, the product is rounded once
SemicircleToDegrees(value) == F32Round(value * 180)

\* a decoder that leaves out the byte swap
Cord_from_bytes_noswap(input) ==
    LET combined == input % 16777216
        value    == IF combined >= 8388608 THEN combined - 16777216 ELSE combined
    IN SemicircleToDegrees(value)

Cord_from_bytes(input) ==
    LET combined == swap_bytes32_shr8(input % 16777216)
        value    == IF combined >= 8388608 THEN combined - 16777216 ELSE combined
    IN SemicircleToDegrees(value)

\* Report::latitude() (bit offset 32: 1-based indices 5 .. 7)
Report_latitude(report) ==
    Cord_from_bytes(report[5] + 256 * report[6] + 65536 * report[7])

\* Report::longitude() (bit offset 56: 1-based indices 8 .. 10)
Report_longitude(report) ==
    Cord_from_bytes(report[8] + 256 * report[9] + 65536 * report[10])

----------------------------------------------------------------------------
(* The coordinate codec: a Report with one coordinate field filled           *)

CordMiddleBytes == {0, 255}

ReportWithBytes(at, bs) ==
    [i \in 1 .. ReportLen |->
        IF i >= at /\ i < at + Len(bs) THEN bs[i - at + 1] ELSE 0]

InitCord ==
    /\ \E at \in {5, 8}, b0 \in Byte, b1 \in CordMiddleBytes, b2 \in Byte :
          cin = ReportWithBytes(at, << b0, b1, b2 >>)
    /\ cout = NoCodec
    /\ stream = << >>
    /\ pos = 0
    /\ result = NoResult
    /\ calls = 0
    /\ inp = [kind |-> "codec", body |-> << >>, lead |-> << >>]
    /\ build = "release"

ReadLatitude ==
    /\ cout.kind = "none"
    /\ cout' = [kind |-> "latitude", value |-> Report_latitude(cin)]
    /\ UNCHANGED <<stream, pos, result, calls, inp, build, cin>>

ReadLongitude ==
    /\ cout.kind = "none"
    /\ cout' = [kind |-> "longitude", value |-> Report_longitude(cin)]
    /\ UNCHANGED <<stream, pos, result, calls, inp, build, cin>>

NextCord == ReadLatitude \/ ReadLongitude

SpecCord == InitCord /\ [][NextCord]_vars

\* the two's-complement value of three wire bytes, most significant first
WireSigned24(report, at) ==
    LET u == report[at] * 65536 + report[at + 1] * 256 + report[at + 2]
    IN IF u >= 8388608 THEN u - 16777216 ELSE u

\* the semicircle value of the coordinate field that was read
CordRead ==
    IF cout.kind = "latitude" THEN WireSigned24(cin, 5) ELSE WireSigned24(cin, 8)

Abs(x) == IF x < 0 THEN 0 - x ELSE x

----------------------------------------------------------------------------
(* C13 *)

\* C13 (as stated): for every 24-bit coordinate field with signed value s,
\* the decoded angle is s * 180 / 2^23 degrees.
C13_ExactAngle ==
    cout.kind \in {"latitude", "longitude"} => cout.value = 180 * CordRead

\* C13 (amended): the decoded angle is a single-precision value within
\* 2^-17 degree (64 units of 2^-23 degree) of s * 180 / 2^23, equal to it whenever 180 * s has at most
\* 24 significant bits, and always in [-180, 180); wire bytes 20 00 00 give
\* 45, E0 00 00 give -45, 40 00 00 give 90, 80 00 00 give -180 and 00 00 00
\* give 0.
C13_RoundedAngle ==
    cout.kind \in {"latitude", "longitude"} =>
        LET s == CordRead
        IN /\ Abs(cout.value - 180 * s) <= 64
           /\ BitLen(Abs(180 * s)) <= 24 => cout.value = 180 * s
           /\ cout.value = F32Round(cout.value)
           /\ cout.value >= -180 * 8388608
           /\ cout.value < 180 * 8388608
           /\ s = 2097152 => cout.value = 45 * 8388608
           /\ s = -2097152 => cout.value = -45 * 8388608
           /\ s = 4194304 => cout.value = 90 * 8388608
           /\ s = -8388608 => cout.value = -180 * 8388608
           /\ s = 0 => cout.value = 0

\* wire bytes 7F FF FF (the largest angle) have been decoded as a latitude:
\* 180 * (2^23 - 1) is rounded up by 52 units of 2^-23 degree
C13_Witness ==
    /\ cin[5] = 127 /\ cin[6] = 255 /\ cin[7] = 255
    /\ cout.kind = "latitude"
    /\ cout.value = 180 * 8388607 + 52

----------------------------------------------------------------------------
(* types/report.rs: the call-sign field of a Report.  The bitfield getter   *)
(* hands CallSignType::from_bytes the 64 bits at bit offset 144 and         *)
(* to_le_bytes() gives back bytes 18 .. 25 of the Report in wire order.  A  *)
(* string is the sequence of its UTF-8 bytes.                               *)

Drop(s, n) == SubSeq(s, n + 1, Len(s))

IsContinuation(b) == b >= 128 /\ b <= 191

\* std::str::from_utf8: the width of the well-formed UTF-8 sequence that
\* starts at index i of s, or 0 when there is none
Utf8CharLen(s, i) ==
    LET b == s[i]
        n == Len(s) - i + 1
    IN IF b < 128 THEN 1
       ELSE IF b >= 194 /\ b <= 223
       THEN (IF n >= 2 /\ IsContinuation(s[i + 1]) THEN 2 ELSE 0)
       ELSE IF b >= 224 /\ b <= 239
       THEN (IF /\ n >= 3
                /\ IsContinuation(s[i + 1])
                /\ IsContinuation(s[i + 2])
                /\ (b = 224 => s[i + 1] >= 160)
                /\ (b = 237 => s[i + 1] <= 159)
             THEN 3 ELSE 0)
       ELSE IF b >= 240 /\ b <= 244
       THEN (IF /\ n >= 4
                /\ IsContinuation(s[i + 1])
                /\ IsContinuation(s[i + 2])
                /\ IsContinuation(s[i + 3])
                /\ (b = 240 => s[i + 1] >= 144)
                /\ (b = 244 => s[i + 1] <= 143)
             THEN 4 ELSE 0)
       ELSE 0

RECURSIVE Utf8ValidFrom(_, _)
Utf8ValidFrom(s, i) ==
    IF i > Len(s) THEN TRUE
    ELSE IF Utf8CharLen(s, i) = 0 THEN FALSE
    ELSE Utf8ValidFrom(s, i + Utf8CharLen(s, i))

from_utf8_is_ok(s) == Utf8ValidFrom(s, 1)

\* char::is_whitespace, on the UTF-8 bytes of one character
is_whitespace(c) ==
    \/ c \in { << 9 >>, << 10 >>, << 11 >>, << 12 >>, << 13 >>, << 32 >> }
    \/ c \in { << 194, 133 >>, << 194, 160 >>, << 225, 154, 128 >> }
    \/ c \in { << 226, 128, x >> : x \in 128 .. 138 }
    \/ c \in { << 226, 128, 168 >>, << 226, 128, 169 >>, << 226, 128, 175 >>,
               << 226, 129, 159 >>, << 227, 128, 128 >> }

\* index of the first byte of the last character of a non-empty string
RECURSIVE LastCharStart(_, _)
LastCharStart(s, i) ==
    IF i > 1 /\ IsContinuation(s[i]) THEN LastCharStart(s, i - 1) ELSE i

RECURSIVE trim_start(_)
trim_start(s) ==
    IF s = << >> THEN s
    ELSE IF is_whitespace(Take(s, Utf8CharLen(s, 1)))
    THEN trim_start(Drop(s, Utf8CharLen(s, 1)))
    ELSE s

RECURSIVE trim_end(_)
trim_end(s) ==
    IF s = << >> THEN s
    ELSE IF is_whitespace(Drop(s, LastCharStart(s, Len(s)) - 1))
    THEN trim_end(Take(s, LastCharStart(s, Len(s)) - 1))
    ELSE s

\* a trim of the end only
trim_end_only(s) == trim_end(s)

\* str::trim
trim(s) == trim_end(trim_start(s))

\* the bytes of "invalid_call_sign"
invalid_call_sign ==
    << 105, 110, 118, 97, 108, 105, 100, 95, 99, 97, 108, 108, 95, 115, 105,
       103, 110 >>

CallSignType_from_bytes(bytes) ==
    [tail_number |-> trim(IF from_utf8_is_ok(bytes) THEN bytes
                          ELSE invalid_call_sign)]

\* Report::call_sign() (1-based indices 19 .. 26)
Report_call_sign(report) == CallSignType_from_bytes(SubSeq(report, 19, 26))

----------------------------------------------------------------------------
(* The call-sign codec: the first and last three bytes of the field run     *)
(* over letters, spaces, a tab and the bytes of a two-byte character        *)

CallSignBytes == {9, 32, 78, 128, 169, 195}

CallSignMiddles == { << 78, 78 >>, << 32, 32 >>, << 78, 169 >> }

InitCallSign ==
    /\ \E head \in [1 .. 3 -> CallSignBytes], mid \in CallSignMiddles,
          last \in [1 .. 3 -> CallSignBytes] :
          cin = ReportWithBytes(19, head \o mid \o last)
    /\ cout = NoCodec
    /\ stream = << >>
    /\ pos = 0
    /\ result = NoResult
    /\ calls = 0
    /\ inp = [kind |-> "codec", body |-> << >>, lead |-> << >>]
    /\ build = "release"

ReadCallSign ==
    /\ cout.kind = "none"
    /\ cout' = [kind |-> "ok", value |-> Report_call_sign(cin)]
    /\ UNCHANGED <<stream, pos, result, calls, inp, build, cin>>

NextCallSign == ReadCallSign

SpecCallSign == InitCallSign /\ [][NextCallSign]_vars

\* the eight call-sign bytes of a Report on the wire
WireCallSign(report) == SubSeq(report, 19, 26)

IsAscii(s) == \A i \in 1 .. Len(s) : s[i] < 128

\* s without the bytes of W at its end, and without those at either end
StripEnd(s, W) ==
    LET keep == { i \in 1 .. Len(s) : s[i] \notin W }
    IN IF keep = { } THEN << >>
       ELSE Take(s, CHOOSE i \in keep : \A j \in keep : j <= i)

StripBothEnds(s, W) ==
    LET keep == { i \in 1 .. Len(s) : s[i] \notin W }
    IN IF keep = { } THEN << >>
       ELSE SubSeq(s, CHOOSE i \in keep : \A j \in keep : i <= j,
                      CHOOSE i \in keep : \A j \in keep : j <= i)

----------------------------------------------------------------------------
(* C14 *)

\* C14 (as stated): for every call-sign field of ASCII bytes, tail_number is
\* the 8 bytes in wire order with the trailing spaces (20) removed and
\* nothing else removed; leading spaces are preserved.
C14_TrailingSpacesOnly ==
    (cout.kind = "ok" /\ IsAscii(WireCallSign(cin))) =>
        cout.value.tail_number = StripEnd(WireCallSign(cin), {32})

\* C14 (amended): for every call-sign field of ASCII bytes, tail_number is
\* the 8 bytes in wire order with the ASCII whitespace (09 .. 0D and 20) at
\* both ends removed; every byte between the first and the last
\* non-whitespace byte is preserved.
C14_TrimsBothEnds ==
    (cout.kind = "ok" /\ IsAscii(WireCallSign(cin))) =>
        cout.value.tail_number = StripBothEnds(WireCallSign(cin), 9 .. 13 \cup {32})

\* the field ' N NNN<tab> ' has been decoded to 'N NNN'
C14_Witness ==
    /\ WireCallSign(cin) = << 32, 78, 32, 78, 78, 78, 9, 32 >>
    /\ cout.kind = "ok"
    /\ cout.value.tail_number = << 78, 32, 78, 78, 78 >>

----------------------------------------------------------------------------
(* C15 *)

\* C15: call-sign decoding never fails, and every field that holds a byte of
\* 80 or above decodes to the placeholder 'invalid_call_sign'; no such byte
\* appears in a decoded call sign.
C15_NonAsciiIsPlaceholder ==
    cout.kind # "none" =>
        /\ cout.kind = "ok"
        /\ ~ IsAscii(WireCallSign(cin))
              => cout.value.tail_number = invalid_call_sign
        /\ IsAscii(cout.value.tail_number)

----------------------------------------------------------------------------
(* types/report.rs: the enumerations of a Report.  #[derive(                *)
(* BitfieldSpecifier)] numbers the variants 0, 1, 2, .. in source order;    *)
(* from_bytes returns the variant with the given number or, when there is   *)
(* none, Err(InvalidBitPattern), on which the getter panics (and the        *)
(* _or_err getter returns the Err).                                         *)

TrafficAlert ==
    << "NoTraffic", "TrafficAlert", "Reserved0", "Reserved1", "Reserved2",
       "Reserved3", "Reserved4", "Reserved5", "Reserved6", "Reserved7",
       "Reserved8", "Reserved9", "Reserved10", "Reserved11", "Reserved12",
       "Reserved13" >>

AddressType ==
    << "ADSBWithICAOAddress", "ADSBWithSelfAssignedAddress",
       "TISBWithICAOAddress", "TISBWithTrackFileID", "SurfaceVehicle",
       "GroundStationBeacon", "Reserved0", "Reserved1", "Reserved2",
       "Reserved3", "Reserved4", "Reserved5", "Reserved6", "Reserved7",
       "Reserved8", "Reserved9" >>

EmmiterCategory ==
    << "NoAircraftTypeInformation", "Light", "Small", "Large",
       "HighVortexLarge", "Heavy", "HighlyManeuverable", "Rotorcraft",
       "Unassigned0", "GliderSailplane", "LighterThanAir",
       "ParachutistSkyDiver", "UltraLightHangGliderParaglider", "Unassigned1",
       "UnmannedAerialVehicle", "SpaceTransatmosphericVehicle", "Unassigned2",
       "SurfaceVehicleEmergency", "SurfaceVehicleService", "PointObstacle",
       "ClusterObstacle", "LineObstacle", "Reserved0", "Reserved1",
       "Reserved2", "Reserved3", "Reserved4", "Reserved5", "Reserved6",
       "Reserved7", "Reserved8", "Reserved9", "Reserved10", "Reserved11",
       "Reserved12", "Reserved13", "Reserved14", "Reserved15", "Reserved16",
       "Reserved17" >>

EmergencyPriorityCodeCategory ==
    << "NoEmergency", "GeneralEmergency", "MedicalEmergency", "MinimumFuel",
       "NoCommunication", "UnlawfulInterference", "DownedAircraft",
       "Reserved0", "Reserved1", "Reserved2", "Reserved3", "Reserved4",
       "Reserved5", "Reserved6", "Reserved7", "Reserved8" >>

\* the derived Specifier::from_bytes of an enumeration
Enum_from_bytes(variants, code) ==
    IF code < Len(variants)
    THEN [kind |-> "ok", variant |-> variants[code + 1]]
    ELSE [kind |-> "InvalidBitPattern", variant |-> "none"]

\* the getters, on the 27 bytes of a Report: bit offsets 0, 4, 136 and 208
Report_traffic_alert_status(report) == Enum_from_bytes(TrafficAlert, report[1] % 16)

Report_address_type(report) == Enum_from_bytes(AddressType, report[1] \div 16)

Report_emmiter_cattegory(report) == Enum_from_bytes(EmmiterCategory, report[18])

Report_emergency_priority_code(report) ==
    Enum_from_bytes(EmergencyPriorityCodeCategory, report[27] % 16)

----------------------------------------------------------------------------
(* The enumeration getters: a Report with one of the three bytes filled     *)

InitEnums ==
    /\ \E at \in {1, 18, 27}, b \in Byte : cin = ReportWithBytes(at, << b >>)
    /\ cout = NoCodec
    /\ stream = << >>
    /\ pos = 0
    /\ result = NoResult
    /\ calls = 0
    /\ inp = [kind |-> "codec", body |-> << >>, lead |-> << >>]
    /\ build = "release"

ReadTrafficAlertStatus ==
    /\ cout.kind = "none"
    /\ cout' = [kind |-> "traffic_alert_status",
                value |-> Report_traffic_alert_status(cin)]
    /\ UNCHANGED <<stream, pos, result, calls, inp, build, cin>>

ReadAddressType ==
    /\ cout.kind = "none"
    /\ cout' = [kind |-> "address_type", value |-> Report_address_type(cin)]
    /\ UNCHANGED <<stream, pos, result, calls, inp, build, cin>>

ReadEmmiterCattegory ==
    /\ cout.kind = "none"
    /\ cout' = [kind |-> "emmiter_cattegory",
                value |-> Report_emmiter_cattegory(cin)]
    /\ UNCHANGED <<stream, pos, result, calls, inp, build, cin>>

ReadEmergencyPriorityCode ==
    /\ cout.kind = "none"
    /\ cout' = [kind |-> "emergency_priority_code",
                value |-> Report_emergency_priority_code(cin)]
    /\ UNCHANGED <<stream, pos, result, calls, inp, build, cin>>

NextEnums ==
    \/ ReadTrafficAlertStatus
    \/ ReadAddressType
    \/ ReadEmmiterCattegory
    \/ ReadEmergencyPriorityCode

SpecEnums == InitEnums /\ [][NextEnums]_vars

----------------------------------------------------------------------------
(* C16 *)

\* C16: every raw code of the width of the field (0 .. 15 for traffic-alert
\* status, address type and emergency/priority code, 0 .. 255 for emitter
\* category) reads as a named variant; reading the field never fails.
C16_ClosedEnumerations ==
    cout.kind # "none" =>
        /\ cout.value.kind = "ok"
        /\ cout.kind = "traffic_alert_status"
              => \E k \in 1 .. 16 : cout.value.variant = TrafficAlert[k]
        /\ cout.kind = "address_type"
              => \E k \in 1 .. 16 : cout.value.variant = AddressType[k]
        /\ cout.kind = "emmiter_cattegory"
              => \E k \in 1 .. Len(EmmiterCategory) :
                    cout.value.variant = EmmiterCategory[k]
        /\ cout.kind = "emergency_priority_code"
              => \E k \in 1 .. 16 :
                    cout.value.variant = EmergencyPriorityCodeCategory[k]

----------------------------------------------------------------------------
(* C17 *)

\* nothing in the body or its frame-check sequence needs escaping, so the
\* frame is the body and its check sequence between two flags
SentUnescaped ==
    Stuff(inp.body \o CrcBytesLE(inp.body)) = inp.body \o CrcBytesLE(inp.body)

\* the signed 16-bit altitude of an ID 0B message as the decoder reads it
\* (first data byte least significant)
RawGeoAltitude(d) == AsI16(U16LE(d[1], d[2]))

\* C17: for every raw 16-bit altitude r in a message with ID 0B, the decoded
\* ownship_geo_altitude is 5 * r exactly; no raw value overflows, wraps or
\* aborts the decode.
C17_GeoAltitudeTimesFive ==
    (SentFrameRead /\ SentUnescaped /\ SentId = 11 /\ Len(SentData) >= 4) =>
        /\ result.kind = "ok"
        /\ result.variant = "OwnshipGeoometricAltitude"
        /\ result.fields[1] = 5 * RawGeoAltitude(SentData)

----------------------------------------------------------------------------
(* C18 *)

\* C18: a message with ID 07 is decoded as UplinkData only when at least
\* 435 data bytes follow the ID, and then as a 24-bit time of reception
\* followed by a payload of exactly 432 bytes.
C18_UplinkDataLayout ==
    (SentFrameRead /\ SentId = 7 /\ result.kind = "ok"
        /\ result.variant = "UplinkData") =>
        /\ Len(SentData) >= 435
        /\ Len(result.fields) = 1 + 432

----------------------------------------------------------------------------
(* types/ownship_geometric_altitude.rs: VerticalMetrics is two bytes read   *)
(* in stream order; the bitfield getters take bits 0 .. 14 (figure of       *)
(* merit) and bit 15 (warning) of the word whose low byte comes first.      *)

Vfom_Unavailable == [kind |-> "Unavailable", value |-> 0]

Vfom_from_bytes(input) ==
    LET masked == input % 32768
    IN IF masked = 32767 THEN Vfom_Unavailable
       ELSE [kind |-> "Available", value |-> masked]

\* a getter that takes the two bytes most significant byte first
VerticalMetrics_vertical_figure_of_merit_be(bytes) ==
    Vfom_from_bytes((bytes[1] * 256 + bytes[2]) % 32768)

\* VerticalMetrics::vertical_figure_of_merit()
VerticalMetrics_vertical_figure_of_merit(bytes) ==
    Vfom_from_bytes(U16LE(bytes[1], bytes[2]) % 32768)

\* VerticalMetrics::vertical_warning_indicator()
VerticalMetrics_vertical_warning_indicator(bytes) ==
    (U16LE(bytes[1], bytes[2]) \div 32768) = 1

----------------------------------------------------------------------------
(* The vertical metrics getters on every pair of bytes                      *)

InitVerticalMetrics ==
    /\ \E b0 \in Byte, b1 \in Byte : cin = << b0, b1 >>
    /\ cout = NoCodec
    /\ stream = << >>
    /\ pos = 0
    /\ result = NoResult
    /\ calls = 0
    /\ inp = [kind |-> "codec", body |-> << >>, lead |-> << >>]
    /\ build = "release"

ReadVfom ==
    /\ cout.kind = "none"
    /\ cout' = [kind |-> "vertical_figure_of_merit",
                value |-> VerticalMetrics_vertical_figure_of_merit(cin)]
    /\ UNCHANGED <<stream, pos, result, calls, inp, build, cin>>

ReadWarningIndicator ==
    /\ cout.kind = "none"
    /\ cout' = [kind |-> "vertical_warning_indicator",
                value |-> VerticalMetrics_vertical_warning_indicator(cin)]
    /\ UNCHANGED <<stream, pos, result, calls, inp, build, cin>>

NextVerticalMetrics == ReadVfom \/ ReadWarningIndicator

SpecVerticalMetrics == InitVerticalMetrics /\ [][NextVerticalMetrics]_vars

\* the low 15 bits and the top bit of the word, from the wire bytes
WireFom(bytes) == bytes[1] + 256 * (bytes[2] % 128)

WireWarning(bytes) == bytes[2] >= 128

----------------------------------------------------------------------------
(* C19 *)

\* C19: with w the 16-bit word of the two bytes, least significant first,
\* the figure of merit is Unavailable when w & 7FFF = 7FFF and
\* Available(w & 7FFF) otherwise, and the warning indicator is bit 15 of w;
\* the warning bit never changes the figure of merit (FF FF: warning and
\* Unavailable; 0A 00: no warning and 10; 32 80: warning and 50).
C19_VerticalMetrics ==
    /\ cout.kind = "vertical_figure_of_merit" =>
          /\ WireFom(cin) = 32767 => cout.value = [kind |-> "Unavailable", value |-> 0]
          /\ WireFom(cin) # 32767
                => cout.value = [kind |-> "Available", value |-> WireFom(cin)]
          /\ cout.value =
                VerticalMetrics_vertical_figure_of_merit(<< cin[1], cin[2] % 128 >>)
          /\ cin = << 255, 255 >> => cout.value.kind = "Unavailable"
          /\ cin = << 10, 0 >> => cout.value = [kind |-> "Available", value |-> 10]
          /\ cin = << 50, 128 >> => cout.value = [kind |-> "Available", value |-> 50]
    /\ cout.kind = "vertical_warning_indicator" =>
          /\ cout.value = WireWarning(cin)
          /\ cin = << 255, 255 >> => cout.value = TRUE
          /\ cin = << 10, 0 >> => cout.value = FALSE
          /\ cin = << 50, 128 >> => cout.value = TRUE

\* bytes 32 80 (warning bit set) have been read as a figure of merit of 50
C19_Witness ==
    /\ cin = << 50, 128 >>
    /\ cout = [kind |-> "vertical_figure_of_merit",
               value |-> [kind |-> "Available", value |-> 50]]

----------------------------------------------------------------------------
(* control.rs: the Control Panel messages.  A String is the sequence of its *)
(* UTF-8 bytes; the derived BinWrite sends every field through the          *)
(* Checksum stream, which adds each byte to a wrapping u8.                  *)

RECURSIVE SumBytes(_, _, _)
SumBytes(s, lo, hi) ==
    IF lo > hi THEN 0
    ELSE IF lo = hi THEN s[lo]
    ELSE LET mid == (lo + hi) \div 2
         IN SumBytes(s, lo, mid) + SumBytes(s, mid + 1, hi)

\* Checksum::write: for b in buf { self.check += b }
Checksum_write(check, buf) == (check + SumBytes(buf, 1, Len(buf))) % 256

\* one digit of format!("{:02X}")
HexUpper(n) == IF n < 10 THEN 48 + n ELSE 55 + n

\* Checksum::check
Checksum_check(check) == << HexUpper(check \div 16), HexUpper(check % 16) >>

RECURSIVE Decimal(_)
Decimal(x) == IF x < 10 THEN << 48 + x >> ELSE Decimal(x \div 10) \o << 48 + (x % 10) >>

\* format!("{:04}", x)
Format04(x) ==
    IF Len(Decimal(x)) >= 4 THEN Decimal(x)
    ELSE [i \in 1 .. 4 - Len(Decimal(x)) |-> 48] \o Decimal(x)

u16_to_four_digit_ascii(x) == Take(Format04(x), 4)

str_to_eight_digit_ascii(x) == [i \in 1 .. 8 |-> IF i <= Len(x) THEN x[i] ELSE 32]

ModeField == [StandBy |-> 79, ModeA |-> 65, ModeC |-> 67]

IdentField == [Enabled |-> 73, Inactive |-> 45]

HealthyField == [NotHealthy |-> 48, Healthy |-> 49]

EmergencyField ==
    [None |-> 48, General |-> 49, Medical |-> 50, Fuel |-> 51, Com |-> 52,
     Hijack |-> 53, Downed |-> 54]

\* the bytes written before the checksum field
CallSignMessage_fields(m) ==
    << 94, 67, 83, 32 >> \o str_to_eight_digit_ascii(m.call_sign)

OperationModeMessage_fields(m) ==
    << 94, 77, 68, 32 >>
        \o << ModeField[m.mode], 44, IdentField[m.ident], 44 >>
        \o u16_to_four_digit_ascii(m.squawk)
        \o << EmergencyField[m.emergency], HealthyField[m.healthy] >>

VfrCodeMessage_fields(m) ==
    << 94, 86, 67, 32 >> \o u16_to_four_digit_ascii(m.vfr_code)

\* self.write(&mut output): the fields, then w.check() of what was written
\* so far, then the carriage return
BinWrite_write(fields) ==
    fields \o Checksum_check(Checksum_write(0, fields)) \o << 13 >>

\* to_string_message: String::from_utf8(output.into_inner()).unwrap()
to_string_message(fields) ==
    IF from_utf8_is_ok(BinWrite_write(fields))
    THEN [kind |-> "ok", value |-> BinWrite_write(fields)]
    ELSE [kind |-> "panic", value |-> << >>]

----------------------------------------------------------------------------
(* The Control Panel encoder on call signs of up to MaxCallSignChars         *)
(* characters, every VFR code and a few squawk codes under every mode        *)

MaxCallSignChars == 9

CallSignChars == { << 71 >>, << 195, 169 >> }

RECURSIVE Flatten(_)
Flatten(ss) == IF ss = << >> THEN << >> ELSE Head(ss) \o Flatten(Tail(ss))

CallSigns ==
    UNION { { Flatten(cs) : cs \in [1 .. n -> CallSignChars] } :
            n \in 0 .. MaxCallSignChars }

Squawks == {0, 7, 1200, 2345, 7777, 9999, 10000, 65535}

ControlMessages ==
    { [type |-> "CallSignMessage", call_sign |-> c] : c \in CallSigns }
    \cup { [type |-> "OperationModeMessage", mode |-> md, ident |-> id,
            squawk |-> sq, emergency |-> em, healthy |-> he] :
           md \in DOMAIN ModeField, id \in DOMAIN IdentField, sq \in Squawks,
           em \in DOMAIN EmergencyField, he \in DOMAIN HealthyField }
    \cup { [type |-> "VfrCodeMessage", vfr_code |-> v] : v \in 0 .. 65535 }

InitControl ==
    /\ cin \in ControlMessages
    /\ cout = NoCodec
    /\ stream = << >>
    /\ pos = 0
    /\ result = NoResult
    /\ calls = 0
    /\ inp = [kind |-> "codec", body |-> << >>, lead |-> << >>]
    /\ build = "release"

CallSignToString ==
    /\ cout.kind = "none"
    /\ cin.type = "CallSignMessage"
    /\ cout' = to_string_message(CallSignMessage_fields(cin))
    /\ UNCHANGED <<stream, pos, result, calls, inp, build, cin>>

OperationModeToString ==
    /\ cout.kind = "none"
    /\ cin.type = "OperationModeMessage"
    /\ cout' = to_string_message(OperationModeMessage_fields(cin))
    /\ UNCHANGED <<stream, pos, result, calls, inp, build, cin>>

VfrCodeToString ==
    /\ cout.kind = "none"
    /\ cin.type = "VfrCodeMessage"
    /\ cout' = to_string_message(VfrCodeMessage_fields(cin))
    /\ UNCHANGED <<stream, pos, result, calls, inp, build, cin>>

NextControl == CallSignToString \/ OperationModeToString \/ VfrCodeToString

SpecControl == InitControl /\ [][NextControl]_vars

\* the receiver's side: two uppercase hexadecimal digits as a number, and
\* the sum modulo 256 of the bytes in front of them
UpperHexDigits ==
    << 48, 49, 50, 51, 52, 53, 54, 55, 56, 57, 65, 66, 67, 68, 69, 70 >>

IsUpperHex(c) == \E k \in 1 .. 16 : UpperHexDigits[k] = c

UpperHexValue(c) == (CHOOSE k \in 1 .. 16 : UpperHexDigits[k] = c) - 1

\* out ends with two uppercase hexadecimal digits and a carriage return, and
\* the digits give the sum modulo 256 of all the bytes in front of them
ChecksumMatches(out) ==
    /\ Len(out) >= 3
    /\ out[Len(out)] = 13
    /\ IsUpperHex(out[Len(out) - 2])
    /\ IsUpperHex(out[Len(out) - 1])
    /\ 16 * UpperHexValue(out[Len(out) - 2]) + UpperHexValue(out[Len(out) - 1])
          = SumBytes(out, 1, Len(out) - 3) % 256

----------------------------------------------------------------------------
(* C20 *)

\* C20: for every CallSignMessage, OperationModeMessage and VfrCodeMessage,
\* to_string_message() returns a string whose two characters before the
\* trailing carriage return are the uppercase, zero-padded hexadecimal sum
\* modulo 256 of all the bytes in front of them.
C20_ChecksumRoundTrip ==
    cout.kind # "none" =>
        /\ cout.kind = "ok"
        /\ ChecksumMatches(cout.value)

----------------------------------------------------------------------------
(* C21 *)

IsDigit(c) == c >= 48 /\ c <= 57

\* the number that four decimal digits spell
FourDigitValue(d) ==
    1000 * (d[1] - 48) + 100 * (d[2] - 48) + 10 * (d[3] - 48) + (d[4] - 48)

\* d is the value x written as four zero-padded decimal digits
SpellsValue(d, x) ==
    /\ Len(d) = 4
    /\ \A i \in 1 .. 4 : IsDigit(d[i])
    /\ FourDigitValue(d) = x

\* C21: for every input value a call-sign message is exactly 15 bytes
\* ('^CS ', the call sign truncated or space-padded on the right to 8
\* characters, 2 checksum characters, CR), an operation-mode message exactly
\* 17 bytes and a VFR-code message exactly 11 bytes, every numeric field
\* being its 16-bit value written as 4 zero-padded decimal digits.
C21_FixedWidthOutput ==
    cout.kind # "none" =>
        /\ cout.kind = "ok"
        /\ cin.type = "CallSignMessage" =>
              /\ Len(cout.value) = 15
              /\ SubSeq(cout.value, 1, 4) = << 94, 67, 83, 32 >>
              /\ IsAscii(cin.call_sign) =>
                    SubSeq(cout.value, 5, 12) =
                        [i \in 1 .. 8 |-> IF i <= Len(cin.call_sign)
                                          THEN cin.call_sign[i] ELSE 32]
              /\ cout.value[15] = 13
        /\ cin.type = "OperationModeMessage" =>
              /\ Len(cout.value) = 17
              /\ SpellsValue(SubSeq(cout.value, 9, 12), cin.squawk)
        /\ cin.type = "VfrCodeMessage" =>
              /\ Len(cout.value) = 11
              /\ SpellsValue(SubSeq(cout.value, 5, 8), cin.vfr_code)

----------------------------------------------------------------------------
(* types/initialization.rs: ConfigurationByte2 is one byte; #[bitfield]     *)
(* lays the fields out in declaration order from bit 0, so                  *)
(* csa_audio_disable (declared first) is bit 0 and csa_disable bit 1.       *)

\* bit k of a byte
BitOf(byte, k) == ((byte \div Pow2(k)) % 2) = 1

\* ConfigurationByte2::csa_audio_disable()
ConfigurationByte2_csa_audio_disable(byte) == BitOf(byte, 0)

\* ConfigurationByte2::csa_disable()
ConfigurationByte2_csa_disable(byte) == BitOf(byte, 1)

----------------------------------------------------------------------------
(* The getters of configuration byte 2 on every byte value                  *)

InitConfiguration ==
    /\ \E b \in Byte : cin = << b >>
    /\ cout = NoCodec
    /\ stream = << >>
    /\ pos = 0
    /\ result = NoResult
    /\ calls = 0
    /\ inp = [kind |-> "codec", body |-> << >>, lead |-> << >>]
    /\ build = "release"

ReadCsaAudioDisable ==
    /\ cout.kind = "none"
    /\ cout' = [kind |-> "csa_audio_disable",
                value |-> ConfigurationByte2_csa_audio_disable(cin[1])]
    /\ UNCHANGED <<stream, pos, result, calls, inp, build, cin>>

ReadCsaDisable ==
    /\ cout.kind = "none"
    /\ cout' = [kind |-> "csa_disable",
                value |-> ConfigurationByte2_csa_disable(cin[1])]
    /\ UNCHANGED <<stream, pos, result, calls, inp, build, cin>>

NextConfiguration == ReadCsaAudioDisable \/ ReadCsaDisable

SpecConfiguration == InitConfiguration /\ [][NextConfiguration]_vars

----------------------------------------------------------------------------
(* C22 *)

\* C22: for every value of configuration byte 2, csa_audio_disable() is bit
\* 1 of the byte and csa_disable() is bit 0, as in the documented bit table;
\* bits 2 .. 7 affect neither.
C22_ConfigurationByte2Bits ==
    /\ cout.kind = "csa_audio_disable" =>
          cout.value = (((cin[1] \div 2) % 2) = 1)
    /\ cout.kind = "csa_disable" =>
          cout.value = ((cin[1] % 2) = 1)

----------------------------------------------------------------------------
(* remove_escapes on its own: every byte string of up to MaxEscapedLen      *)
(* bytes over letters, the flag, the escape byte and the two bytes that     *)
(* follow an escape byte on the wire                                        *)

MaxEscapedLen == 6

EscapeAlphabet == {65, 93, 94, 125, 126}

InitEscapes ==
    /\ cin \in UNION { [1 .. n -> EscapeAlphabet] : n \in 0 .. MaxEscapedLen }
    /\ cout = NoCodec
    /\ stream = << >>
    /\ pos = 0
    /\ result = NoResult
    /\ calls = 0
    /\ inp = [kind |-> "codec", body |-> << >>, lead |-> << >>]
    /\ build = "release"

\* remove_escapes(cin)
Unescape ==
    /\ cout.kind = "none"
    /\ cout' = [kind |-> "unescaped", value |-> remove_escapes(cin)]
    /\ UNCHANGED <<stream, pos, result, calls, inp, build, cin>>

\* remove_escapes on what a sender makes of cin
UnescapeStuffed ==
    /\ cout.kind = "none"
    /\ cout' = [kind |-> "sent", value |-> remove_escapes(Stuff(cin))]
    /\ UNCHANGED <<stream, pos, result, calls, inp, build, cin>>

NextEscapes == Unescape \/ UnescapeStuffed

SpecEscapes == InitEscapes /\ [][NextEscapes]_vars

\* no flag byte, and every escape byte has a byte after it
EveryEscapeFollowed(s) ==
    /\ \A i \in 1 .. Len(s) : s[i] # GDL90_MAGIC
    /\ \A i \in 1 .. Len(s) : s[i] = GDL90_ESCAPEBYTE => i < Len(s)

\* no flag byte, and every escape byte is followed by 5D or 5E: the strings
\* that byte stuffing produces
Canonical(s) ==
    /\ \A i \in 1 .. Len(s) : s[i] # GDL90_MAGIC
    /\ \A i \in 1 .. Len(s) :
          s[i] = GDL90_ESCAPEBYTE => (i < Len(s) /\ s[i + 1] \in {93, 94})

----------------------------------------------------------------------------
(* C23 *)

\* C23 (as stated): for every byte sequence in which each escape byte 7D is
\* followed by another byte, remove_escapes followed by re-escaping
\* (7E -> 7D 5E, 7D -> 7D 5D) gives back the sequence.
C23_EscapeRoundTrip ==
    (cout.kind = "unescaped" /\ EveryEscapeFollowed(cin)) =>
        Stuff(cout.value) = cin

\* C23 (amended): for every byte sequence without 7E in which each escape
\* byte 7D is followed by 5D or 5E, remove_escapes followed by re-escaping
\* gives back the sequence; and for every byte sequence b, remove_escapes of
\* the escaped b is b.
C23_CanonicalRoundTrip ==
    /\ (cout.kind = "unescaped" /\ Canonical(cin)) => Stuff(cout.value) = cin
    /\ cout.kind = "sent" => cout.value = cin

\* 7D 5E 41 7D 5D has been unescaped to 7E 41 7D
C23_Witness ==
    /\ cin = << 125, 94, 65, 125, 93 >>
    /\ cout = [kind |-> "unescaped", value |-> << 126, 65, 125 >>]

----------------------------------------------------------------------------
(* Two frames on one stream, each with its own start and end flag, read by  *)
(* successive Gdl90Message::read calls on the same Cursor                   *)

SequenceBodies ==
    { << id >> \o Pattern(NeedOf(id), x, y, 0) :
        id \in {0, 2, 9, 11}, x \in {0, 1}, y \in {0, 1} }
    \cup { << 0, 129, 65, 219, 208, 8, 2 >> }

InitSequence ==
    /\ \E b1 \in SequenceBodies, b2 \in SequenceBodies :
          /\ stream = Frame(b1) \o Frame(b2)
          /\ inp = [kind |-> "sequence", body |-> b1, lead |-> << >>, next |-> b2]
    /\ pos = 0
    /\ result = NoResult
    /\ calls = 0
    /\ build \in {"debug", "release"}
    /\ cin = << >>
    /\ cout = NoCodec

SpecSequence == InitSequence /\ [][Next]_vars

\* the message a frame built from body b carries
MessageOf(b) == Gdl90DatalinkMessage_read(b, FALSE)

\* neither frame holds a byte that needed escaping
SequenceUnescaped ==
    /\ Len(Frame(inp.body)) = Len(inp.body) + 4
    /\ Len(Frame(inp.next)) = Len(inp.next) + 4

----------------------------------------------------------------------------
(* C24 *)

\* C24: on a stream holding two well-formed frames one after the other,
\* each with its own flags, the first read returns the first message and
\* leaves the reader just past the end flag of the first frame, and the
\* second read returns the second message.
C24_SequentialReads ==
    (inp.kind = "sequence" /\ SequenceUnescaped) =>
        /\ calls = 1 =>
              /\ result.kind = "ok"
              /\ result.variant = MessageOf(inp.body).variant
              /\ result.fields = MessageOf(inp.body).fields
              /\ pos = Len(Frame(inp.body))
        /\ calls = 2 =>
              /\ result.kind = "ok"
              /\ result.variant = MessageOf(inp.next).variant
              /\ result.fields = MessageOf(inp.next).fields

----------------------------------------------------------------------------
(* types/report.rs: the layout of a Report.  #[bitfield] places the fields  *)
(* in declaration order from bit 0 of byte 0 upwards.                       *)

\* the widths in bits of the fields of Report, in declaration order
ReportFieldBits == << 4, 4, 24, 24, 24, 16, 4, 4, 24, 8, 8, 64, 4, 4 >>

RECURSIVE SumTo(_, _)
SumTo(w, k) == IF k = 0 THEN 0 ELSE SumTo(w, k - 1) + w[k]

\* bit offset of the k-th field
ReportFieldOffset(k) == SumTo(ReportFieldBits, k - 1)

\* Report::reserved() (bit offset 212)
Report_reserved(report) == report[27] \div 16

----------------------------------------------------------------------------
(* The getters of the first and the last byte of a Report                   *)

ReadReserved ==
    /\ cout.kind = "none"
    /\ cout' = [kind |-> "reserved", value |-> Report_reserved(cin)]
    /\ UNCHANGED <<stream, pos, result, calls, inp, build, cin>>

NextNibbles == NextEnums \/ ReadReserved

SpecNibbles == InitEnums /\ [][NextNibbles]_vars

----------------------------------------------------------------------------
(* C25 *)

\* C25: the traffic-alert status is decoded from the high-order 4 bits of
\* the first Report byte and the address type from its low-order 4 bits;
\* the emergency/priority code is decoded from the high-order 4 bits of the
\* last byte and the spare field from its low-order 4 bits; the fields total
\* 216 bits and every field of more than one byte starts on a byte boundary.
C25_ReportNibbleOrder ==
    /\ cout.kind = "traffic_alert_status" =>
          cout.value = [kind |-> "ok", variant |-> TrafficAlert[(cin[1] \div 16) + 1]]
    /\ cout.kind = "address_type" =>
          cout.value = [kind |-> "ok", variant |-> AddressType[(cin[1] % 16) + 1]]
    /\ cout.kind = "emergency_priority_code" =>
          cout.value = [kind |-> "ok",
                        variant |-> EmergencyPriorityCodeCategory[(cin[27] \div 16) + 1]]
    /\ cout.kind = "reserved" => cout.value = cin[27] % 16
    /\ SumTo(ReportFieldBits, Len(ReportFieldBits)) = 216
    /\ 8 * ReportLen = 216
    /\ \A k \in 1 .. Len(ReportFieldBits) :
          ReportFieldBits[k] > 8 => ReportFieldOffset(k) % 8 = 0

====
